---- MODULE Spec2Model ----
(***************************************************************************)
(* Model of the MCP client REPL (src/src/mcp-client-repl.ts, current       *)
(* revision, lines 1-508): the McpRepl session object, the protocol error  *)
(* classifier formatMcpError and the command loop repl().                   *)
(*                                                                         *)
(* Strings the code inspects character by character (connect targets) are  *)
(* sequences of one-character strings.  An optional JavaScript value is a   *)
(* sequence of length 0 (undefined / null) or 1 (present).                  *)
(*                                                                         *)
(* The SDK objects (Client, the three transports) are the environment:     *)
(* every awaited SDK call either returns or rejects with an error object,  *)
(* chosen nondeterministically.  A transport is "open" from the moment      *)
(* mcp.connect(transport) resolves until a close() of the client that is    *)
(* bound to it resolves; the repository's code holds no other way to close  *)
(* a transport.                                                             *)
(***************************************************************************)
EXTENDS Integers, Sequences, FiniteSets, TLC

VARIABLES
    pc,               \* position of repl(): "start", "prompt", "exited", "crashed"
    env,              \* process.env: MCP_SERVER_URL, MCP_TRANSPORT, MCP_API_KEY
    connected,        \* McpRepl.connected
    transport,        \* McpRepl.transport (NoTransport models null)
    transportType,    \* McpRepl.transportType ("null" models null)
    transportTarget,  \* McpRepl.transportTarget (NullTarget models null)
    tools,            \* McpRepl.tools
    mcpTransport,     \* id of the transport this.mcp was last connected with, 0 if none
    mcpClosed,        \* whether close() has been called on the object this.mcp
    open,             \* ids of the transports that are open
    nextId,           \* id the next constructed transport gets
    last,             \* what the last command did (history, for the properties)
    caught,           \* the value a catch block hands to formatMcpError
    diagnostic        \* what formatMcpError gave for it, <<>> before the call

vars == <<pc, env, connected, transport, transportType, transportTarget, tools,
          mcpTransport, mcpClosed, open, nextId, last, caught, diagnostic>>

----------------------------------------------------------------------------
(* Bounds of the model *)

\* number of transport objects one run may construct
MaxTransports == 2

----------------------------------------------------------------------------
(* Strings as character sequences *)

Str_a  == <<"s", ".", "j", "s">>                \* a plain script path
Str_b  == <<"n", "p", "x", " ", "m">>           \* a shell command line
Str_u  == <<"h", ":", "/", "u">>                \* a URL

NullTarget == <<"null">>

\* String.prototype.includes
Includes(s, sub) ==
    \E i \in 1..(Len(s) - Len(sub) + 1) : SubSeq(s, i, i + Len(sub) - 1) = sub

\* String.prototype.startsWith
StartsWith(s, pre) ==
    Len(s) >= Len(pre) /\ SubSeq(s, 1, Len(pre)) = pre

Letters == {"a", "b", "c", "d", "h", "j", "m", "n", "p", "s", "u", "v", "x"}

\* new URL(url) with no base succeeds only for a string that starts with a
\* scheme: letters followed by ':' ; otherwise it throws ERR_INVALID_URL
IsValidURL(s) ==
    \E i \in 2..Len(s) : s[i] = ":" /\ \A j \in 1..(i - 1) : s[j] \in Letters

\* the tokens line.trim().split(' ') can yield: no token contains a space
IsToken(s) == Len(s) > 0 /\ \A i \in 1..Len(s) : s[i] # " "

AllTargets  == {Str_a, Str_b, Str_u}
ReplTargets == {s \in AllTargets : IsToken(s)}

----------------------------------------------------------------------------
(* Protocol error classifier *)

MCP_ERROR_INFO ==
    [c \in {"-32000", "-32001", "-32002", "-32003", "-32004", "-32005"} |->
       CASE c = "-32000" ->
              [code |-> "-32000", name |-> "Authentication Error",
               description |-> "Missing or invalid authentication token",
               commonCause |-> "The API key or authentication credentials are missing or invalid",
               howToHandle |-> "Check your MCP_API_KEY environment variable or provide a valid API key when connecting"]
         [] c = "-32001" ->
              [code |-> "-32001", name |-> "Invalid Session",
               description |-> "Session ID not found or expired",
               commonCause |-> "The session has expired or was not properly initialized",
               howToHandle |-> "Disconnect and reconnect to reinitialize the session"]
         [] c = "-32002" ->
              [code |-> "-32002", name |-> "Method Not Found",
               description |-> "The requested method does not exist",
               commonCause |-> "Called a tool or method that is not available on this server",
               howToHandle |-> "Use \"tools\" command to list available tools and verify the method name"]
         [] c = "-32003" ->
              [code |-> "-32003", name |-> "Invalid Parameters",
               description |-> "Missing or invalid parameters",
               commonCause |-> "The parameters provided do not match the expected schema",
               howToHandle |-> "Use \"tool <toolName>\" to see the expected parameters schema and validate your input"]
         [] c = "-32004" ->
              [code |-> "-32004", name |-> "Internal Error",
               description |-> "Server-side exception occurred",
               commonCause |-> "An unexpected error occurred on the server",
               howToHandle |-> "Check server logs for details. This may be a bug in the MCP server implementation"]
         [] OTHER ->
              [code |-> "-32005", name |-> "Parse Error",
               description |-> "Invalid JSON format",
               commonCause |-> "The request contained malformed JSON",
               howToHandle |-> "Verify your JSON syntax. Use proper escaping and formatting"]]

\* A thrown value, as far as formatMcpError probes it.  code, message: the
\* direct fields; ecode, emessage: error.error.code, error.error.message;
\* rcode: error.response.error.code; str: the result of error.toString().
\* A field is <<>> when the probe yields undefined; null and undefined have
\* every field <<>>.  str is NotCallable when the object has no callable
\* toString (Object.create(null), { toString: null }).
\* Codes are written as the property keys JavaScript turns them into.
MkError(code, message, ecode, emessage, rcode, str) ==
    [code |-> code, message |-> message, ecode |-> ecode, emessage |-> emessage,
     rcode |-> rcode, str |-> str]

\* error.toString is not a function: calling it throws this TypeError
NotCallable == <<"TypeError", "error.toString is not a function">>

AuthError    == MkError(<<"-32000">>, <<"Authentication failed">>, <<>>, <<>>, <<>>,
                        <<"Error: Authentication failed">>)
RefusedError == MkError(<<>>, <<"connect ECONNREFUSED">>, <<>>, <<>>, <<>>,
                        <<"Error: connect ECONNREFUSED">>)
UrlError     == MkError(<<"ERR_INVALID_URL">>, <<"Invalid URL">>, <<>>, <<>>, <<>>,
                        <<"TypeError: Invalid URL">>)

\* the failures the environment may answer an SDK call with
Errors == {AuthError, RefusedError}

\* undefined and the empty string are falsy
Truthy(a) == a # <<>> /\ a[1] # ""

\* a || b on optional strings
OrElse(a, b) == IF Truthy(a) THEN a ELSE b

\* errorCode that looks at error.error.code before error.code: a faulty
\* variant, which C16 must tell from errorCode
errorCode_nestedFirst(error) ==
    IF error.ecode # <<>> THEN error.ecode
    ELSE IF error.code # <<>> THEN error.code
    ELSE IF error.rcode # <<>> THEN error.rcode
    ELSE <<>>

\* lines 80-87: the first of the three positions that is not undefined
errorCode(error) ==
    IF error.code # <<>> THEN error.code
    ELSE IF error.ecode # <<>> THEN error.ecode
    ELSE IF error.rcode # <<>> THEN error.rcode
    ELSE <<>>

\* line 90: error?.message || error?.error?.message || error?.toString()
\* || 'Unknown error'.  toString is called only when both messages are falsy;
\* the result is NotCallable when that call throws.
originalMessage(error) ==
    IF Truthy(error.message) THEN error.message
    ELSE IF Truthy(error.emessage) THEN error.emessage
    ELSE IF error.str = NotCallable THEN NotCallable
    ELSE OrElse(error.str, <<"Unknown error">>)

\* the text formatMcpError builds, line by line, each line by its pieces
DetailLines(info) ==
    << <<"MCP Error Details:">>,
       <<"Code: ", info.code>>,
       <<"Name: ", info.name>>,
       <<"Description: ", info.description>>,
       <<"Common Cause: ", info.commonCause>>,
       <<"How to Handle: ", info.howToHandle>> >>

UnknownLine(code) == <<"Error Code: ", code, " (unknown MCP error code)">>

\* what a call of formatMcpError comes to: the returned text or the exception
Returned(text) == [raised |-> <<>>, text |-> text]
Raised(ex) == [raised |-> <<ex>>, text |-> <<>>]

\* formatMcpError that leaves the remediation line out: a faulty variant,
\* which C15 must tell from formatMcpError
formatMcpError_noHowToHandle(error) ==
    LET code == errorCode(error)
        message == originalMessage(error)
    IN  IF message = NotCallable THEN Raised(NotCallable)
        ELSE IF code # <<>> /\ code[1] \in DOMAIN MCP_ERROR_INFO
        THEN Returned(<< <<"Error: ", message[1]>> >>
                      \o SubSeq(DetailLines(MCP_ERROR_INFO[code[1]]), 1, 5))
        ELSE IF code # <<>>
        THEN Returned(<< <<"Error: ", message[1]>>, UnknownLine(code[1]) >>)
        ELSE Returned(<< <<"Error: ", message[1]>> >>)

formatMcpError(error) ==
    LET code == errorCode(error)
        message == originalMessage(error)
    IN  IF message = NotCallable THEN Raised(NotCallable)
        ELSE IF code # <<>> /\ code[1] \in DOMAIN MCP_ERROR_INFO
        THEN Returned(<< <<"Error: ", message[1]>> >>
                      \o DetailLines(MCP_ERROR_INFO[code[1]]))
        ELSE IF code # <<>>
        THEN Returned(<< <<"Error: ", message[1]>>, UnknownLine(code[1]) >>)
        ELSE Returned(<< <<"Error: ", message[1]>> >>)

----------------------------------------------------------------------------
(* The servers behind the targets and the tools they advertise *)

ServerTool(name, description) ==
    [name |-> name, description |-> description, inputSchema |-> <<"schema", name>>]

\* the reply of the server behind a target to a tools/list request
ServerTools(target) ==
    CASE target = Str_a -> <<ServerTool("get_weather", "a: weather"),
                             ServerTool("search_images", "a: images")>>
      [] target = Str_u -> <<ServerTool("search_images", "u: images"),
                             ServerTool("generate_text", "u: text")>>
      [] OTHER          -> <<>>

\* the content blocks the server behind a target answers a tools/call with
ServerContent(target, name, arguments) ==
    <<[type |-> "text", text |-> <<target, name, arguments>>]>>

ToolNames == {"get_weather", "generate_text", "no_such_tool"}

\* the JSON texts of a call command, and JSON.parse(text || '{}') of each
ArgTexts == {"", "{\"city\":\"NYC\"}", "{bad"}

JsonValid(text) == text # "{bad"

JsonParse(text) == IF text = "" THEN "{}" ELSE text

----------------------------------------------------------------------------
(* Outcomes of an awaited SDK call *)

NoError == MkError(<<>>, <<>>, <<>>, <<>>, <<>>, <<>>)

\* the client has no open transport: the SDK rejects the request
SdkNotConnected == MkError(<<>>, <<"Not connected">>, <<>>, <<>>, <<>>,
                           <<"Error: Not connected">>)

Ok == [ok |-> TRUE, err |-> NoError]

Outcomes == {Ok} \cup {[ok |-> FALSE, err |-> e] : e \in Errors}

\* the outcomes to explore for an SDK call a command makes only if `called`
OutcomesIf(called) == IF called THEN Outcomes ELSE {Ok}

----------------------------------------------------------------------------
(* The machine: the McpRepl fields, process.env, the transports, and what   *)
(* the running command has done so far.                                     *)

NoTransport ==
    [id |-> 0, kind |-> "null", command |-> "", args |-> <<>>, url |-> <<>>,
     apiKeyHeader |-> <<>>]

\* the target a transport object was constructed for
TargetOf(t) ==
    IF t.kind = "stdio" THEN t.args[Len(t.args)]
    ELSE IF t.kind = "null" THEN NullTarget
    ELSE t.url[1]

Session(m) ==
    [connected |-> m.connected, transport |-> m.transport,
     transportType |-> m.transportType, transportTarget |-> m.transportTarget,
     tools |-> m.tools]

InitialSession ==
    [connected |-> FALSE, transport |-> NoTransport, transportType |-> "null",
     transportTarget |-> NullTarget, tools |-> <<>>]

\* the machine at the start of a command
Cur ==
    [connected |-> connected, transport |-> transport,
     transportType |-> transportType, transportTarget |-> transportTarget,
     tools |-> tools, mcpTransport |-> mcpTransport, mcpClosed |-> mcpClosed,
     env |-> env,
     open |-> open, nextId |-> nextId,
     out |-> <<>>,        \* what the command has printed
     created |-> {},      \* transports constructed
     opened |-> {},       \* transports mcp.connect opened
     onClosed |-> FALSE,  \* whether mcp.connect was called on a closed client
     closeCalls |-> 0,    \* mcp.close() calls
     closed |-> {},       \* transports those calls closed
     listCalls |-> 0,     \* mcp.listTools() requests
     toolCalls |-> 0,     \* mcp.callTool() requests
     sent |-> <<>>,       \* the callTool requests, as sent
     fmtCalls |-> 0,      \* formatMcpError invocations
     ret |-> <<>>,        \* autoConnect's return value
     thrown |-> <<>>]     \* the exception in flight, if any

Log(m, sig, text) ==
    [m EXCEPT !.out = Append(@, [sig |-> sig, text |-> text])]

\* console.error(`Failed to ...:\n${formatMcpError(error)}`)
LogError(m, what, error) ==
    [m EXCEPT !.out = Append(@, [sig |-> "Failed", text |-> <<what, formatMcpError(error)>>]),
              !.fmtCalls = @ + 1]

----------------------------------------------------------------------------
(* The SDK client, as McpRepl uses it *)

\* await this.mcp.connect(t): binds the client to t; t is open when it resolves.
\* A transport the client was bound to before is neither closed nor remembered.
McpConnect(m, t, oc) ==
    IF oc.ok
    THEN [m EXCEPT !.mcpTransport = t.id, !.open = @ \cup {t.id},
                   !.opened = @ \cup {t.id}, !.onClosed = @ \/ m.mcpClosed]
    ELSE [m EXCEPT !.mcpTransport = t.id, !.thrown = <<oc.err>>,
                   !.onClosed = @ \/ m.mcpClosed]

\* await this.mcp.close(): closes the transport the client is bound to
McpClose(m, oc) ==
    IF oc.ok
    THEN [m EXCEPT !.closeCalls = @ + 1, !.mcpClosed = TRUE,
                   !.closed = @ \cup ({m.mcpTransport} \cap m.open),
                   !.open = @ \ {m.mcpTransport}]
    ELSE [m EXCEPT !.closeCalls = @ + 1, !.mcpClosed = TRUE,
                   !.thrown = <<oc.err>>]

\* the answer to a request of the client: it rejects when the client's
\* transport is not open, otherwise the environment decides
Answer(m, oc) ==
    IF m.mcpTransport \in m.open THEN oc
    ELSE [ok |-> FALSE, err |-> SdkNotConnected]

----------------------------------------------------------------------------
(* McpRepl *)

\* connectScript whose test leaves out the '&&' case: a faulty variant, which
\* C28 must tell from connectScript
connectScript_noAmpersand(m, scriptPath, oc) ==
    LET isShellCommand ==
            \/ Includes(scriptPath, <<"c", "d", " ">>)
            \/ StartsWith(scriptPath, <<"n", "p", "x", " ">>)
            \/ Includes(scriptPath, <<" ">>)
        t == [id |-> m.nextId, kind |-> "stdio",
              command |-> IF isShellCommand THEN "/bin/bash" ELSE "process.execPath",
              args |-> IF isShellCommand THEN << <<"-", "c">>, scriptPath >>
                       ELSE <<scriptPath>>,
              url |-> <<>>, apiKeyHeader |-> <<>>]
        m1 == [Log(m, "Connecting", <<"stdio", scriptPath>>)
                  EXCEPT !.transport = t, !.nextId = @ + 1,
                         !.created = @ \cup {t.id}]
        m2 == McpConnect(m1, t, oc)
    IN  IF m2.thrown = <<>>
        THEN [Log(m2, "Connected", <<"stdio", scriptPath>>)
                  EXCEPT !.connected = TRUE, !.transportType = "stdio",
                         !.transportTarget = scriptPath]
        ELSE LogError(m2, "connect via stdio", m2.thrown[1])

connectScript(m, scriptPath, oc) ==
    LET isShellCommand ==
            \/ Includes(scriptPath, <<"&", "&">>)
            \/ Includes(scriptPath, <<"c", "d", " ">>)
            \/ StartsWith(scriptPath, <<"n", "p", "x", " ">>)
            \/ Includes(scriptPath, <<" ">>)
        t == [id |-> m.nextId, kind |-> "stdio",
              command |-> IF isShellCommand THEN "/bin/bash" ELSE "process.execPath",
              args |-> IF isShellCommand THEN << <<"-", "c">>, scriptPath >>
                       ELSE <<scriptPath>>,
              url |-> <<>>, apiKeyHeader |-> <<>>]
        m1 == [Log(m, "Connecting", <<"stdio", scriptPath>>)
                  EXCEPT !.transport = t, !.nextId = @ + 1,
                         !.created = @ \cup {t.id}]
        m2 == McpConnect(m1, t, oc)
    IN  IF m2.thrown = <<>>
        THEN [Log(m2, "Connected", <<"stdio", scriptPath>>)
                  EXCEPT !.connected = TRUE, !.transportType = "stdio",
                         !.transportTarget = scriptPath]
        ELSE LogError(m2, "connect via stdio", m2.thrown[1])

\* connectSSE with the transport type of connectHTTP recorded: a faulty
\* variant, which C6 must tell from connectSSE
connectSSE_typeOfHTTP(m, url, apiKey, oc) ==
    LET m0 == Log(m, "Connecting", <<"sse", url>>)
        t == [id |-> m.nextId, kind |-> "sse", command |-> "", args |-> <<>>,
              url |-> <<url>>,
              apiKeyHeader |-> IF apiKey # <<>> /\ apiKey[1] # "" THEN apiKey ELSE <<>>]
        m1 == [m0 EXCEPT !.transport = t, !.nextId = @ + 1,
                         !.created = @ \cup {t.id}]
        m2 == IF IsValidURL(url) THEN McpConnect(m1, t, oc)
              ELSE [m0 EXCEPT !.thrown = <<UrlError>>]
    IN  IF m2.thrown = <<>>
        THEN [Log(m2, "Connected", <<"sse", url>>)
                  EXCEPT !.connected = TRUE, !.transportType = "http",
                         !.transportTarget = url]
        ELSE LogError(m2, "connect via SSE", m2.thrown[1])

connectSSE(m, url, apiKey, oc) ==
    LET m0 == Log(m, "Connecting", <<"sse", url>>)
        t == [id |-> m.nextId, kind |-> "sse", command |-> "", args |-> <<>>,
              url |-> <<url>>,
              apiKeyHeader |-> IF apiKey # <<>> /\ apiKey[1] # "" THEN apiKey ELSE <<>>]
        m1 == [m0 EXCEPT !.transport = t, !.nextId = @ + 1,
                         !.created = @ \cup {t.id}]
        m2 == IF IsValidURL(url) THEN McpConnect(m1, t, oc)
              ELSE [m0 EXCEPT !.thrown = <<UrlError>>]
    IN  IF m2.thrown = <<>>
        THEN [Log(m2, "Connected", <<"sse", url>>)
                  EXCEPT !.connected = TRUE, !.transportType = "sse",
                         !.transportTarget = url]
        ELSE LogError(m2, "connect via SSE", m2.thrown[1])

\* connectHTTP that never sets the x-api-key header: a faulty variant, which
\* C27 must tell from connectHTTP
connectHTTP_noHeader(m, url, apiKey, oc) ==
    LET m0 == Log(m, "Connecting", <<"http", url>>)
        t == [id |-> m.nextId, kind |-> "http", command |-> "", args |-> <<>>,
              url |-> <<url>>,
              apiKeyHeader |-> <<>>]
        m1 == [m0 EXCEPT !.transport = t, !.nextId = @ + 1,
                         !.created = @ \cup {t.id}]
        m2 == IF IsValidURL(url) THEN McpConnect(m1, t, oc)
              ELSE [m0 EXCEPT !.thrown = <<UrlError>>]
    IN  IF m2.thrown = <<>>
        THEN [Log(m2, "Connected", <<"http", url>>)
                  EXCEPT !.connected = TRUE, !.transportType = "http",
                         !.transportTarget = url]
        ELSE LogError(m2, "connect via HTTP", m2.thrown[1])

connectHTTP(m, url, apiKey, oc) ==
    LET m0 == Log(m, "Connecting", <<"http", url>>)
        t == [id |-> m.nextId, kind |-> "http", command |-> "", args |-> <<>>,
              url |-> <<url>>,
              apiKeyHeader |-> IF apiKey # <<>> /\ apiKey[1] # "" THEN apiKey ELSE <<>>]
        m1 == [m0 EXCEPT !.transport = t, !.nextId = @ + 1,
                         !.created = @ \cup {t.id}]
        m2 == IF IsValidURL(url) THEN McpConnect(m1, t, oc)
              ELSE [m0 EXCEPT !.thrown = <<UrlError>>]
    IN  IF m2.thrown = <<>>
        THEN [Log(m2, "Connected", <<"http", url>>)
                  EXCEPT !.connected = TRUE, !.transportType = "http",
                         !.transportTarget = url]
        ELSE LogError(m2, "connect via HTTP", m2.thrown[1])

\* disconnect without the `if ( this.connected )` guard of the close: a
\* faulty variant, which C4 must tell from disconnect
disconnect_unguardedClose(m, oc) ==
    LET m1 == McpClose(m, oc)
    IN  IF m1.thrown # <<>> THEN m1
        ELSE [Log(m1, "Disconnected", m1.transportTarget)
                  EXCEPT !.connected = FALSE, !.transport = NoTransport,
                         !.transportType = "null", !.transportTarget = NullTarget,
                         !.tools = <<>>,
                         !.mcpTransport = 0, !.mcpClosed = FALSE]

\* disconnect without `this.tools = []`: a faulty variant, which C8 must tell
\* from disconnect
disconnect_keepsTools(m, oc) ==
    LET m1 == IF m.connected THEN McpClose(m, oc) ELSE m
    IN  IF m1.thrown # <<>> THEN m1
        ELSE [Log(m1, "Disconnected", m1.transportTarget)
                  EXCEPT !.connected = FALSE, !.transport = NoTransport,
                         !.transportType = "null", !.transportTarget = NullTarget,
                         !.mcpTransport = 0, !.mcpClosed = FALSE]

\* disconnect without `this.transportType = null`: a faulty variant, which
\* C35 must tell from disconnect
disconnect_keepsType(m, oc) ==
    LET m1 == IF m.connected THEN McpClose(m, oc) ELSE m
    IN  IF m1.thrown # <<>> THEN m1
        ELSE [Log(m1, "Disconnected", m1.transportTarget)
                  EXCEPT !.connected = FALSE, !.transport = NoTransport,
                         !.transportTarget = NullTarget,
                         !.tools = <<>>,
                         !.mcpTransport = 0, !.mcpClosed = FALSE]

\* disconnect that keeps the client object it has closed: a faulty variant,
\* which C30 must tell from disconnect
disconnect_keepsClient(m, oc) ==
    LET m1 == IF m.connected THEN McpClose(m, oc) ELSE m
    IN  IF m1.thrown # <<>> THEN m1
        ELSE [Log(m1, "Disconnected", m1.transportTarget)
                  EXCEPT !.connected = FALSE, !.transport = NoTransport,
                         !.transportType = "null", !.transportTarget = NullTarget,
                         !.tools = <<>>]

disconnect(m, oc) ==
    LET m1 == IF m.connected THEN McpClose(m, oc) ELSE m
    IN  IF m1.thrown # <<>> THEN m1
        ELSE [Log(m1, "Disconnected", m1.transportTarget)
                  EXCEPT !.connected = FALSE, !.transport = NoTransport,
                         !.transportType = "null", !.transportTarget = NullTarget,
                         !.tools = <<>>,
                         \* this.mcp = new Client(...)
                         !.mcpTransport = 0, !.mcpClosed = FALSE]

\* the text status() prints
status(m) ==
    IF m.connected THEN <<"Connected via", m.transportType, m.transportTarget>>
    ELSE <<"Not connected">>

\* a map that keeps only the first descriptor: a faulty variant, which C21
\* must tell from MapTools
MapTools_firstOnly(ts) ==
    [i \in 1..(IF Len(ts) = 0 THEN 0 ELSE 1) |->
        [name |-> ts[i].name, description |-> ts[i].description,
         input_schema |-> ts[i].inputSchema]]

\* toolsResult.tools.map(...)
MapTools(ts) ==
    [i \in 1..Len(ts) |->
        [name |-> ts[i].name, description |-> ts[i].description,
         input_schema |-> ts[i].inputSchema]]

\* the compact listing: `- ${t.name}: ${t.description}`
Compact(ts) ==
    [i \in 1..Len(ts) |-> <<ts[i].name, ts[i].description>>]

\* listTools that sends the request before it looks at connected: a faulty
\* variant, which C11 must tell from listTools
listTools_queriesFirst(m, full, oc) ==
    LET a  == Answer(m, oc)
        m1 == [m EXCEPT !.listCalls = @ + 1]
    IN  IF ~m.connected THEN Log(m1, "NotConnected", <<>>)
        ELSE IF a.ok
        THEN LET m2 == [m1 EXCEPT !.tools =
                            MapTools(ServerTools(TargetOf(m.transport)))]
             IN  IF Len(m2.tools) = 0 THEN Log(m2, "NoTools", <<>>)
                 ELSE IF full THEN Log(m2, "ToolsFull", m2.tools)
                 ELSE Log(m2, "Tools", Compact(m2.tools))
        ELSE LogError(m1, "list tools", a.err)

\* listTools that empties the catalog when the request fails: a faulty
\* variant, which C36 must tell from listTools
listTools_clearsOnFailure(m, full, oc) ==
    IF ~m.connected THEN Log(m, "NotConnected", <<>>)
    ELSE LET a  == Answer(m, oc)
             m1 == [m EXCEPT !.listCalls = @ + 1]
         IN  IF a.ok
             THEN LET m2 == [m1 EXCEPT !.tools =
                                 MapTools(ServerTools(TargetOf(m.transport)))]
                  IN  IF Len(m2.tools) = 0 THEN Log(m2, "NoTools", <<>>)
                      ELSE IF full THEN Log(m2, "ToolsFull", m2.tools)
                      ELSE Log(m2, "Tools", Compact(m2.tools))
             ELSE LogError([m1 EXCEPT !.tools = <<>>], "list tools", a.err)

\* listTools that sends the request again when it fails: a faulty variant,
\* which C34 must tell from listTools
listTools_reissues(m, full, oc) ==
    IF ~m.connected THEN Log(m, "NotConnected", <<>>)
    ELSE LET a  == Answer(m, oc)
             m1 == [m EXCEPT !.listCalls = @ + 1]
         IN  IF a.ok
             THEN LET m2 == [m1 EXCEPT !.tools =
                                 MapTools(ServerTools(TargetOf(m.transport)))]
                  IN  IF Len(m2.tools) = 0 THEN Log(m2, "NoTools", <<>>)
                      ELSE IF full THEN Log(m2, "ToolsFull", m2.tools)
                      ELSE Log(m2, "Tools", Compact(m2.tools))
             ELSE LogError([m1 EXCEPT !.listCalls = @ + 1], "list tools", a.err)

\* listTools that adds the fetched descriptors to the cached ones: a faulty
\* variant, which C24 must tell from listTools
listTools_appends(m, full, oc) ==
    IF ~m.connected THEN Log(m, "NotConnected", <<>>)
    ELSE LET a  == Answer(m, oc)
             m1 == [m EXCEPT !.listCalls = @ + 1]
         IN  IF a.ok
             THEN LET m2 == [m1 EXCEPT !.tools =
                                 @ \o MapTools(ServerTools(TargetOf(m.transport)))]
                  IN  IF Len(m2.tools) = 0 THEN Log(m2, "NoTools", <<>>)
                      ELSE IF full THEN Log(m2, "ToolsFull", m2.tools)
                      ELSE Log(m2, "Tools", Compact(m2.tools))
             ELSE LogError(m1, "list tools", a.err)

\* listTools that takes a reply without tools for a failure: a faulty
\* variant, which C25 must tell from listTools
listTools_emptyIsFailure(m, full, oc) ==
    IF ~m.connected THEN Log(m, "NotConnected", <<>>)
    ELSE LET a  == Answer(m, oc)
             m1 == [m EXCEPT !.listCalls = @ + 1]
         IN  IF a.ok /\ Len(ServerTools(TargetOf(m.transport))) > 0
             THEN LET m2 == [m1 EXCEPT !.tools =
                                 MapTools(ServerTools(TargetOf(m.transport)))]
                  IN  IF full THEN Log(m2, "ToolsFull", m2.tools)
                      ELSE Log(m2, "Tools", Compact(m2.tools))
             ELSE LogError(m1, "list tools",
                           IF a.ok THEN MkError(<<>>, <<"No tools">>, <<>>, <<>>, <<>>,
                                                <<"Error: No tools">>)
                           ELSE a.err)

listTools(m, full, oc) ==
    IF ~m.connected THEN Log(m, "NotConnected", <<>>)
    ELSE LET a  == Answer(m, oc)
             m1 == [m EXCEPT !.listCalls = @ + 1]
         IN  IF a.ok
             THEN LET m2 == [m1 EXCEPT !.tools =
                                 MapTools(ServerTools(TargetOf(m.transport)))]
                  IN  IF Len(m2.tools) = 0 THEN Log(m2, "NoTools", <<>>)
                      ELSE IF full THEN Log(m2, "ToolsFull", m2.tools)
                      ELSE Log(m2, "Tools", Compact(m2.tools))
             ELSE LogError(m1, "list tools", a.err)

Find(ts, toolName) == {i \in 1..Len(ts) : ts[i].name = toolName}

\* showTool that reloads the catalog whatever it holds: a faulty variant,
\* which C31 must tell from showTool
showTool_alwaysReloads(m, toolName, oc) ==
    IF ~m.connected THEN Log(m, "NotConnected", <<>>)
    ELSE LET m1 == listTools(m, FALSE, oc)
             hit == Find(m1.tools, toolName)
         IN  IF hit = {} THEN Log(m1, "ToolNotFound", toolName)
             ELSE Log(m1, "Tool", m1.tools[CHOOSE i \in hit : \A j \in hit : i <= j])

showTool(m, toolName, oc) ==
    IF ~m.connected THEN Log(m, "NotConnected", <<>>)
    ELSE LET m1 == IF Len(m.tools) = 0 THEN listTools(m, FALSE, oc) ELSE m
             hit == Find(m1.tools, toolName)
         IN  IF hit = {} THEN Log(m1, "ToolNotFound", toolName)
             ELSE Log(m1, "Tool", m1.tools[CHOOSE i \in hit : \A j \in hit : i <= j])

\* call without the catalog guard: a faulty variant, which C10 must tell from
\* call
call_noCatalogGuard(m, toolName, args, oc) ==
    IF ~m.connected THEN Log(m, "NotConnected", <<>>)
    ELSE LET a  == Answer(m, oc)
             m1 == [m EXCEPT !.toolCalls = @ + 1,
                             !.sent = Append(@, [name |-> toolName, arguments |-> args,
                                                 via |-> m.mcpTransport])]
         IN  IF a.ok
             THEN Log(m1, "ToolResult",
                      ServerContent(TargetOf(m.transport), toolName, args))
             ELSE LogError(m1, "call tool", a.err)

\* call that sends the request a second time when the first one fails: a
\* faulty variant, which C12 must tell from call
call_retries(m, toolName, args, oc) ==
    IF ~m.connected THEN Log(m, "NotConnected", <<>>)
    ELSE IF Find(m.tools, toolName) = {} THEN Log(m, "ToolNotFound", toolName)
    ELSE LET a  == Answer(m, oc)
             rq == [name |-> toolName, arguments |-> args, via |-> m.mcpTransport]
             m1 == [m EXCEPT !.toolCalls = @ + 1, !.sent = Append(@, rq)]
             m2 == [m1 EXCEPT !.toolCalls = @ + 1, !.sent = Append(@, rq)]
         IN  IF a.ok
             THEN Log(m1, "ToolResult",
                      ServerContent(TargetOf(m.transport), toolName, args))
             ELSE LogError(m2, "call tool", a.err)

\* call that reports the caught error as it is, without formatMcpError: a
\* faulty variant, which C13 must tell from call
call_rawError(m, toolName, args, oc) ==
    IF ~m.connected THEN Log(m, "NotConnected", <<>>)
    ELSE IF Find(m.tools, toolName) = {} THEN Log(m, "ToolNotFound", toolName)
    ELSE LET a  == Answer(m, oc)
             m1 == [m EXCEPT !.toolCalls = @ + 1,
                             !.sent = Append(@, [name |-> toolName, arguments |-> args,
                                                 via |-> m.mcpTransport])]
         IN  IF a.ok
             THEN Log(m1, "ToolResult",
                      ServerContent(TargetOf(m.transport), toolName, args))
             ELSE Log(m1, "Failed", <<"call tool", a.err>>)

\* call that reports a name missing from the catalog through formatMcpError:
\* a faulty variant, which C22 must tell from call
call_classifiesMissing(m, toolName, args, oc) ==
    IF ~m.connected THEN Log(m, "NotConnected", <<>>)
    ELSE IF Find(m.tools, toolName) = {}
    THEN LogError(Log(m, "ToolNotFound", toolName), "call tool",
                  MkError(<<"-32002">>, <<"Tool not found">>, <<>>, <<>>, <<>>,
                          <<"Error: Tool not found">>))
    ELSE LET a  == Answer(m, oc)
             m1 == [m EXCEPT !.toolCalls = @ + 1,
                             !.sent = Append(@, [name |-> toolName, arguments |-> args,
                                                 via |-> m.mcpTransport])]
         IN  IF a.ok
             THEN Log(m1, "ToolResult",
                      ServerContent(TargetOf(m.transport), toolName, args))
             ELSE LogError(m1, "call tool", a.err)

call(m, toolName, args, oc) ==
    IF ~m.connected THEN Log(m, "NotConnected", <<>>)
    ELSE IF Find(m.tools, toolName) = {} THEN Log(m, "ToolNotFound", toolName)
    ELSE LET a  == Answer(m, oc)
             m1 == [m EXCEPT !.toolCalls = @ + 1,
                             !.sent = Append(@, [name |-> toolName, arguments |-> args,
                                                 via |-> m.mcpTransport])]
         IN  IF a.ok
             THEN Log(m1, "ToolResult",
                      ServerContent(TargetOf(m.transport), toolName, args))
             ELSE LogError(m1, "call tool", a.err)

----------------------------------------------------------------------------
(* process.env and the environment files *)

EmptyEnv == [url |-> <<>>, transport |-> <<>>, key |-> <<>>]

\* an environment file: the variables it sets
EnvFile(f) ==
    CASE f = ".env-stdio" -> [url |-> <<Str_b>>, transport |-> <<"stdio">>, key |-> <<"">>]
      [] f = ".env-sse"   -> [url |-> <<Str_u>>, transport |-> <<"SSE">>, key |-> <<"k1">>]
      [] f = ".env-http"  -> [url |-> <<Str_u>>, transport |-> <<"http">>, key |-> <<"">>]
      [] f = ".env-ws"    -> [url |-> <<Str_u>>, transport |-> <<"ws">>, key |-> <<"k1">>]
      \* MCP_SERVER_URL= with nothing after it
      [] f = ".env-empty" -> [url |-> << <<>> >>, transport |-> <<"stdio">>, key |-> <<"">>]
      [] OTHER            -> EmptyEnv      \* no such file, or an empty one

EnvFiles == {".env-stdio", ".env-sse", ".env-http", ".env-ws", ".env-empty", ".env-none"}

\* dotenv.config({path, override: true}): the variables the file sets replace
\* those of process.env, the others stay
DotenvConfig(e, f) ==
    [url       |-> IF EnvFile(f).url # <<>> THEN EnvFile(f).url ELSE e.url,
     transport |-> IF EnvFile(f).transport # <<>> THEN EnvFile(f).transport ELSE e.transport,
     key       |-> IF EnvFile(f).key # <<>> THEN EnvFile(f).key ELSE e.key]

\* String.prototype.toLowerCase on the transport names of the model
ToLowerCase(s) ==
    CASE s = "SSE" -> "sse" [] s = "HTTP" -> "http" [] s = "STDIO" -> "stdio"
      [] OTHER -> s

\* dotenv.config reports a missing file in its result and does not throw:
\* loadEnvFile returns true
loadEnvFile(m, filePath) ==
    Log(Log([m EXCEPT !.env = DotenvConfig(m.env, filePath)], "LoadingEnv", filePath),
        "EnvLoaded", filePath)

\* autoConnect that compares the kind as it is written: a faulty variant,
\* which C23 must tell from autoConnect
autoConnect_caseSensitive(m, oc) ==
    LET serverUrl == m.env.url
        transportName == m.env.transport
        apiKey == m.env.key
    IN  \* ! serverUrl || ! transport : undefined and the empty string are falsy
        IF \/ serverUrl = <<>> \/ serverUrl = << <<>> >>
           \/ transportName = <<>> \/ transportName = <<"">>
        THEN [Log(m, "NoAutoConnect", <<>>) EXCEPT !.ret = <<FALSE>>]
        ELSE LET m0 == Log(m, "AutoConnecting", <<transportName[1], serverUrl[1]>>)
                 kind == transportName[1]
                 m1 == CASE kind = "sse"   -> connectSSE(m0, serverUrl[1], apiKey, oc)
                         [] kind = "http"  -> connectHTTP(m0, serverUrl[1], apiKey, oc)
                         [] kind = "stdio" -> connectScript(m0, serverUrl[1], oc)
                         [] OTHER -> Log(m0, "UnsupportedTransport", transportName[1])
             IN  IF m1.thrown # <<>>
                 THEN [LogError(m1, "automatic connection", m1.thrown[1])
                          EXCEPT !.thrown = <<>>, !.ret = <<FALSE>>]
                 ELSE [m1 EXCEPT !.ret = <<kind \in {"sse", "http", "stdio"}>>]

\* autoConnect whose catch returns true: a faulty variant, which C32 must
\* tell from autoConnect
autoConnect_trueOnFailure(m, oc) ==
    LET serverUrl == m.env.url
        transportName == m.env.transport
        apiKey == m.env.key
    IN  \* ! serverUrl || ! transport : undefined and the empty string are falsy
        IF \/ serverUrl = <<>> \/ serverUrl = << <<>> >>
           \/ transportName = <<>> \/ transportName = <<"">>
        THEN [Log(m, "NoAutoConnect", <<>>) EXCEPT !.ret = <<FALSE>>]
        ELSE LET m0 == Log(m, "AutoConnecting", <<transportName[1], serverUrl[1]>>)
                 kind == ToLowerCase(transportName[1])
                 m1 == CASE kind = "sse"   -> connectSSE(m0, serverUrl[1], apiKey, oc)
                         [] kind = "http"  -> connectHTTP(m0, serverUrl[1], apiKey, oc)
                         [] kind = "stdio" -> connectScript(m0, serverUrl[1], oc)
                         [] OTHER -> Log(m0, "UnsupportedTransport", transportName[1])
             IN  IF m1.thrown # <<>>
                 THEN [LogError(m1, "automatic connection", m1.thrown[1])
                          EXCEPT !.thrown = <<>>, !.ret = <<TRUE>>]
                 ELSE [m1 EXCEPT !.ret = <<kind \in {"sse", "http", "stdio"}>>]

autoConnect(m, oc) ==
    LET serverUrl == m.env.url
        transportName == m.env.transport
        apiKey == m.env.key
    IN  \* ! serverUrl || ! transport : undefined and the empty string are falsy
        IF \/ serverUrl = <<>> \/ serverUrl = << <<>> >>
           \/ transportName = <<>> \/ transportName = <<"">>
        THEN [Log(m, "NoAutoConnect", <<>>) EXCEPT !.ret = <<FALSE>>]
        ELSE LET m0 == Log(m, "AutoConnecting", <<transportName[1], serverUrl[1]>>)
                 kind == ToLowerCase(transportName[1])
                 m1 == CASE kind = "sse"   -> connectSSE(m0, serverUrl[1], apiKey, oc)
                         [] kind = "http"  -> connectHTTP(m0, serverUrl[1], apiKey, oc)
                         [] kind = "stdio" -> connectScript(m0, serverUrl[1], oc)
                         [] OTHER -> Log(m0, "UnsupportedTransport", transportName[1])
             IN  IF m1.thrown # <<>>
                 THEN [LogError(m1, "automatic connection", m1.thrown[1])
                          EXCEPT !.thrown = <<>>, !.ret = <<FALSE>>]
                 ELSE [m1 EXCEPT !.ret = <<kind \in {"sse", "http", "stdio"}>>]

\* whether autoConnect under environment e reaches an mcp.connect call
WouldConnect(e) ==
    /\ e.url # <<>> /\ e.url # << <<>> >>
    /\ e.transport # <<>> /\ e.transport # <<"">>
    /\ \/ ToLowerCase(e.transport[1]) = "stdio"
       \/ ToLowerCase(e.transport[1]) \in {"sse", "http"} /\ IsValidURL(e.url[1])

----------------------------------------------------------------------------
(* repl(): one action per command of the loop *)

NoArgs ==
    [type |-> <<>>, target |-> <<>>, apiKey |-> <<>>, name |-> <<>>,
     text |-> <<>>, file |-> <<>>, full |-> FALSE]

\* How far the last commands have come along the sequence: 1 a stdio connect
\* that succeeded from Disconnected, 2 then a tools command that was
\* answered, 3 then a call of an advertised tool that was answered, 4 then a
\* disconnect that returned, 5 then status; 0 otherwise (history, for C21).
ScenarioStep(prev, cmd, args, m0, m) ==
    IF /\ cmd \in {"start", "connect", "connectenv"}
       /\ ~m0.connected /\ m.opened # {} /\ m.transport.kind = "stdio"
    THEN 1
    ELSE IF prev = 1 /\ cmd = "tools" /\ m.fmtCalls = 0 THEN 2
    ELSE IF /\ prev = 2 /\ cmd = "call" /\ args.name # <<>>
            /\ JsonValid(args.text[1]) /\ m.fmtCalls = 0
            /\ \E i \in DOMAIN ServerTools(TargetOf(m0.transport)) :
                  ServerTools(TargetOf(m0.transport))[i].name = args.name[1]
    THEN 3
    ELSE IF prev = 3 /\ cmd = "disconnect" /\ m.thrown = <<>> THEN 4
    ELSE IF prev = 4 /\ cmd = "status" THEN 5
    ELSE 0

\* the state after a command that ran m0 to m: an exception that escaped the
\* command ends repl() and with it the process
Install(cmd, args, m0, m) ==
    /\ connected' = m.connected
    /\ transport' = m.transport
    /\ transportType' = m.transportType
    /\ transportTarget' = m.transportTarget
    /\ tools' = m.tools
    /\ mcpTransport' = m.mcpTransport
    /\ mcpClosed' = m.mcpClosed
    /\ env' = m.env
    /\ open' = m.open
    /\ nextId' = m.nextId
    /\ UNCHANGED <<caught, diagnostic>>
    /\ last' = [cmd |-> cmd, args |-> args, pre |-> Session(m0),
                preOpen |-> m0.open, preMcp |-> m0.mcpTransport,
                out |-> m.out, created |-> m.created, opened |-> m.opened,
                closeCalls |-> m.closeCalls, closed |-> m.closed,
                listCalls |-> m.listCalls, toolCalls |-> m.toolCalls,
                sent |-> m.sent, fmtCalls |-> m.fmtCalls, ret |-> m.ret,
                thrown |-> m.thrown,
                scenario |-> ScenarioStep(last.scenario, cmd, args, m0, m),
                \* a connect, listTools or callTool went to a client on which
                \* close() had been called
                onClosed |-> \/ m.onClosed
                             \/ m0.mcpClosed /\ m.listCalls + m.toolCalls > 0,
                \* for a disconnect() call: whether the command before was a
                \* disconnect that returned, and from which state
                afterDisconnect |->
                    IF cmd \in {"disconnect", "exit"} /\ last.cmd = "disconnect"
                       /\ last.thrown = <<>>
                    THEN (IF last.pre.connected THEN "from connected"
                          ELSE "from disconnected")
                    ELSE "no"]
    /\ pc' = IF m.thrown # <<>> THEN "crashed"
             ELSE IF cmd = "exit" THEN "exited"
             ELSE "prompt"

CanConstruct == nextId <= MaxTransports

\* await this.autoConnect() before the loop
Start ==
    /\ pc = "start"
    /\ \E oc \in OutcomesIf(WouldConnect(env)) :
          Install("start", NoArgs, Cur, autoConnect(Cur, oc))

\* help, an unknown command: print only (the empty line prints nothing)
CmdHelp ==
    /\ pc = "prompt"
    /\ \E c \in {"help", "unknown"} :
          Install(c, NoArgs, Cur, Log(Cur, IF c = "help" THEN "Help" ELSE "UnknownCommand", <<>>))

CmdStatus ==
    /\ pc = "prompt"
    /\ Install("status", NoArgs, Cur, Log(Cur, "Status", status(Cur)))

ConnectTypes == {"stdio", "http", "sse", "SSE"}

\* the connect command with the kind compared without regard to case: a
\* faulty variant, which C37 must tell from CmdConnect
CmdConnect_anyCase ==
    /\ pc = "prompt"
    /\ CanConstruct
    /\ \E type \in {<<>>} \cup {<<k>> : k \in ConnectTypes} :
       \E target \in IF type = <<>> THEN {<<>>}
                     ELSE {<<>>} \cup {<<t>> : t \in ReplTargets} :
       \E apiKey \in IF target # <<>> /\ ToLowerCase(type[1]) \in {"http", "sse", "stdio"}
                     THEN {<<>>, <<"k1">>} ELSE {<<>>} :
       \E oc \in OutcomesIf(/\ target # <<>>
                            /\ \/ type[1] = "stdio"
                               \/ ToLowerCase(type[1]) \in {"http", "sse"} /\ IsValidURL(target[1])) :
          LET args == [NoArgs EXCEPT !.type = type, !.target = target, !.apiKey = apiKey]
              m == IF type = <<>> \/ target = <<>> THEN Log(Cur, "UsageConnect", <<>>)
                   ELSE IF type[1] = "stdio" THEN connectScript(Cur, target[1], oc)
                   ELSE IF type[1] = "http" THEN connectHTTP(Cur, target[1], apiKey, oc)
                   ELSE IF ToLowerCase(type[1]) = "sse" THEN connectSSE(Cur, target[1], apiKey, oc)
                   ELSE Log(Cur, "UnknownTransport", type[1])
          IN  \* catch (error) { } : already logged in the connect methods
              Install("connect", args, Cur, [m EXCEPT !.thrown = <<>>])

CmdConnect ==
    /\ pc = "prompt"
    /\ CanConstruct
    /\ \E type \in {<<>>} \cup {<<k>> : k \in ConnectTypes} :
       \E target \in IF type = <<>> THEN {<<>>}
                     ELSE {<<>>} \cup {<<t>> : t \in ReplTargets} :
       \E apiKey \in IF target # <<>> /\ type[1] \in {"http", "sse", "stdio"}
                     THEN {<<>>, <<"k1">>} ELSE {<<>>} :
       \E oc \in OutcomesIf(/\ target # <<>>
                            /\ \/ type[1] = "stdio"
                               \/ type[1] \in {"http", "sse"} /\ IsValidURL(target[1])) :
          LET args == [NoArgs EXCEPT !.type = type, !.target = target, !.apiKey = apiKey]
              m == IF type = <<>> \/ target = <<>> THEN Log(Cur, "UsageConnect", <<>>)
                   ELSE IF type[1] = "stdio" THEN connectScript(Cur, target[1], oc)
                   ELSE IF type[1] = "http" THEN connectHTTP(Cur, target[1], apiKey, oc)
                   ELSE IF type[1] = "sse" THEN connectSSE(Cur, target[1], apiKey, oc)
                   ELSE Log(Cur, "UnknownTransport", type[1])
          IN  \* catch (error) { } : already logged in the connect methods
              Install("connect", args, Cur, [m EXCEPT !.thrown = <<>>])

CmdConnectenv ==
    /\ pc = "prompt"
    /\ \E file \in {<<>>} \cup {<<f>> : f \in EnvFiles} :
          \* the bound applies to the files whose configuration constructs a
          \* transport
          /\ (file # <<>> /\ WouldConnect(DotenvConfig(env, file[1]))) => CanConstruct
          /\ \E ocClose \in OutcomesIf(file # <<>> /\ connected) :
             \E oc \in OutcomesIf(/\ file # <<>>
                                  /\ ocClose.ok
                                  /\ WouldConnect(DotenvConfig(env, file[1]))) :
                LET args == [NoArgs EXCEPT !.file = file]
                    m1 == IF Cur.connected THEN disconnect(Cur, ocClose) ELSE Cur
                    m == IF file = <<>> THEN Log(Cur, "UsageConnectenv", <<>>)
                         ELSE IF m1.thrown # <<>> THEN m1
                         ELSE autoConnect(loadEnvFile(m1, file[1]), oc)
                IN  Install("connectenv", args, Cur, m)

CmdDisconnect ==
    /\ pc = "prompt"
    /\ \E oc \in OutcomesIf(connected) :
          Install("disconnect", NoArgs, Cur, disconnect(Cur, oc))

CmdTools ==
    /\ pc = "prompt"
    /\ \E full \in BOOLEAN, oc \in OutcomesIf(connected /\ mcpTransport \in open) :
          Install("tools", [NoArgs EXCEPT !.full = full], Cur, listTools(Cur, full, oc))

CmdTool ==
    /\ pc = "prompt"
    /\ \E name \in {<<>>} \cup {<<n>> : n \in ToolNames} :
       \E oc \in OutcomesIf(/\ name # <<>> /\ connected /\ Len(tools) = 0
                            /\ mcpTransport \in open) :
          Install("tool", [NoArgs EXCEPT !.name = name], Cur,
                  IF name = <<>> THEN Log(Cur, "UsageTool", <<>>)
                  ELSE showTool(Cur, name[1], oc))

CmdCall ==
    /\ pc = "prompt"
    /\ \E name \in {<<>>} \cup {<<n>> : n \in ToolNames} :
       \E text \in IF name = <<>> THEN {""} ELSE ArgTexts :
       \E oc \in OutcomesIf(/\ name # <<>> /\ JsonValid(text) /\ connected
                            /\ Find(tools, name[1]) # {}
                            /\ mcpTransport \in open) :
          Install("call", [NoArgs EXCEPT !.name = name, !.text = <<text>>], Cur,
                  IF name = <<>> THEN Log(Cur, "UsageCall", <<>>)
                  ELSE IF ~JsonValid(text) THEN Log(Cur, "InvalidJSON", text)
                  ELSE call(Log(Cur, "Invoking", <<name[1], JsonParse(text)>>),
                            name[1], JsonParse(text), oc))

CmdExit ==
    /\ pc = "prompt"
    /\ \E oc \in OutcomesIf(connected) :
          Install("exit", NoArgs, Cur, disconnect(Cur, oc))

----------------------------------------------------------------------------
(* The specification *)

NoLast ==
    [cmd |-> "none", args |-> NoArgs, pre |-> InitialSession,
     preOpen |-> {}, preMcp |-> 0,
     out |-> <<>>, created |-> {}, opened |-> {}, closeCalls |-> 0, closed |-> {},
     listCalls |-> 0, toolCalls |-> 0, sent |-> <<>>, fmtCalls |-> 0, ret |-> <<>>,
     thrown |-> <<>>, scenario |-> 0, onClosed |-> FALSE, afterDisconnect |-> "no"]

\* main(): dotenv loads the environment file, then new McpRepl()
Init ==
    /\ pc = "start"
    /\ env \in {DotenvConfig(EmptyEnv, f) : f \in EnvFiles}
    /\ connected = FALSE
    /\ transport = NoTransport
    /\ transportType = "null"
    /\ transportTarget = NullTarget
    /\ tools = <<>>
    /\ mcpTransport = 0
    /\ mcpClosed = FALSE
    /\ open = {}
    /\ nextId = 1
    /\ last = NoLast
    /\ caught = NoError
    /\ diagnostic = <<>>

Next ==
    \/ Start
    \/ CmdHelp
    \/ CmdStatus
    \/ CmdConnect
    \/ CmdConnectenv
    \/ CmdDisconnect
    \/ CmdTools
    \/ CmdTool
    \/ CmdCall
    \/ CmdExit

Spec == Init /\ [][Next]_vars

----------------------------------------------------------------------------
(* The classifier on its own: formatMcpError applied to a caught value *)

\* codes at the direct position: absent, the six of the table, one outside
\* it, and null (which is not undefined)
DirectCodes == {<<>>} \cup {<<c>> : c \in DOMAIN MCP_ERROR_INFO \cup {"-32006", "null"}}

\* codes at error.error.code and at error.response.error.code
ErrorCodes ==
    {<<>>, <<"-7">>} \cup {<<c>> : c \in {"-32001", "-32005"}}
ResponseCodes ==
    {<<>>, <<"-9">>} \cup {<<c>> : c \in {"-32002", "-32004"}}

\* a message field: undefined, empty, or a text
DirectMessages == {<<>>, <<"">>, <<"m">>}
ErrorMessages  == {<<>>, <<"">>, <<"em">>}

\* error.toString(): undefined (also for null and undefined themselves),
\* the empty string (the primitive ''), a text, or not callable
Conversions == {<<>>, <<"">>, <<"[object Object]">>, NotCallable}

\* the values a catch block may hold: JavaScript lets any value be thrown
Caught ==
    {MkError(c, m, ec, em, rc, st) :
        c \in DirectCodes, m \in DirectMessages, ec \in ErrorCodes,
        em \in ErrorMessages, rc \in ResponseCodes, st \in Conversions}

InitClassifier ==
    /\ pc = "caught"
    /\ caught \in Caught
    /\ diagnostic = <<>>
    /\ env = EmptyEnv
    /\ connected = FALSE
    /\ transport = NoTransport
    /\ transportType = "null"
    /\ transportTarget = NullTarget
    /\ tools = <<>>
    /\ mcpTransport = 0
    /\ mcpClosed = FALSE
    /\ open = {}
    /\ nextId = 1
    /\ last = NoLast

\* formatMcpError(error) in a catch block
Classify ==
    /\ pc = "caught"
    /\ diagnostic' = <<formatMcpError(caught)>>
    /\ pc' = "classified"
    /\ UNCHANGED <<env, connected, transport, transportType, transportTarget,
                   tools, mcpTransport, mcpClosed, open, nextId, last, caught>>

NextClassifier == Classify

SpecClassifier == InitClassifier /\ [][NextClassifier]_vars

----------------------------------------------------------------------------
(* connectScript on its own: a stdio configuration with any target, run by  *)
(* the automatic connect at the start                                       *)

MaxScriptLen == 4

ScriptAlphabet == {"&", "c", "d", " ", "n", "p", "x"}

\* the values of MCP_SERVER_URL: the non-empty texts up to MaxScriptLen
ScriptPaths == UNION {[1..n -> ScriptAlphabet] : n \in 1..MaxScriptLen}

InitScript ==
    /\ pc = "start"
    /\ env \in {[url |-> <<sp>>, transport |-> <<"stdio">>, key |-> <<>>] :
                    sp \in ScriptPaths}
    /\ connected = FALSE
    /\ transport = NoTransport
    /\ transportType = "null"
    /\ transportTarget = NullTarget
    /\ tools = <<>>
    /\ mcpTransport = 0
    /\ mcpClosed = FALSE
    /\ open = {}
    /\ nextId = 1
    /\ last = NoLast
    /\ caught = NoError
    /\ diagnostic = <<>>

NextScript == Start

SpecScript == InitScript /\ [][NextScript]_vars

----------------------------------------------------------------------------
(* The minimal client: main() of mcp-client-minimal.ts, one step per await  *)

\* MCP_URL and API_KEY of main()
MCP_URL == Str_u
API_KEY == <<"<api-key>">>

\* the errors an awaited SDK call may reject with: Error objects with a
\* message, with or without a code of their own or of a wrapped error
MinimalErrors ==
    {MkError(c, m, ec, <<>>, <<>>, <<"Error">>) :
        c \in DirectCodes, m \in {<<"m">>, <<"failed">>}, ec \in ErrorCodes}

MinimalOutcomes == {Ok} \cup {[ok |-> FALSE, err |-> e] : e \in MinimalErrors}

\* the transport main() constructs
MinimalTransport ==
    [id |-> 1, kind |-> "http", command |-> "", args |-> <<>>,
     url |-> <<MCP_URL>>, apiKeyHeader |-> API_KEY]

InitMinimal ==
    /\ pc = "minimal: connect"
    /\ env = EmptyEnv
    /\ connected = FALSE
    /\ transport = NoTransport
    /\ transportType = "null"
    /\ transportTarget = NullTarget
    /\ tools = <<>>
    /\ mcpTransport = 0
    /\ mcpClosed = FALSE
    /\ open = {}
    /\ nextId = 1
    /\ last = [NoLast EXCEPT !.cmd = "main"]
    /\ caught = NoError
    /\ diagnostic = <<>>

\* the catch of main() that prints the error as it is, without
\* formatMcpError: a faulty variant, which C38 must tell from MinimalCatch
MinimalCatch_rawError(l, err) ==
    [l EXCEPT !.out = Append(@, [sig |-> "Failed", text |-> <<"MCP Client Error", err>>]),
              !.thrown = <<err>>]

\* catch (error) { console.error(`MCP Client Error:\n${formatMcpError(error)}`);
\* process.exit(1) }, on the record of what main() has done
MinimalCatch(l, err) ==
    [l EXCEPT !.out = Append(@, [sig |-> "Failed",
                                 text |-> <<"MCP Client Error", formatMcpError(err)>>]),
              !.fmtCalls = @ + 1,
              !.thrown = <<err>>]

\* the McpRepl fields, which the minimal client does not have
MinimalUnchanged ==
    UNCHANGED <<env, connected, transport, transportType, transportTarget, tools>>

\* the step ends in the catch, with process.exit(1)
MinimalFail(l, err) ==
    /\ last' = MinimalCatch(l, err)
    /\ caught' = err
    /\ diagnostic' = <<formatMcpError(err)>>
    /\ pc' = "minimal: exit 1"

\* new StreamableHTTPClientTransport(...), new Client(...),
\* await client.connect(transport)
MinimalConnect ==
    /\ pc = "minimal: connect"
    /\ MinimalUnchanged
    /\ nextId' = nextId + 1
    /\ mcpTransport' = MinimalTransport.id
    /\ UNCHANGED mcpClosed
    /\ \E oc \in MinimalOutcomes :
          LET l == [last EXCEPT !.created = @ \cup {MinimalTransport.id}]
          IN  IF oc.ok
              THEN /\ open' = open \cup {MinimalTransport.id}
                   /\ last' = [l EXCEPT !.opened = @ \cup {MinimalTransport.id},
                                        !.out = Append(@, [sig |-> "Connected",
                                                           text |-> <<"http", MCP_URL>>])]
                   /\ pc' = "minimal: listTools"
                   /\ UNCHANGED <<caught, diagnostic>>
              ELSE /\ MinimalFail(l, oc.err)
                   /\ UNCHANGED open

\* await client.listTools() and the listing
MinimalListTools ==
    /\ pc = "minimal: listTools"
    /\ MinimalUnchanged
    /\ UNCHANGED <<nextId, mcpTransport, mcpClosed, open>>
    /\ \E oc \in MinimalOutcomes :
          LET l == [last EXCEPT !.listCalls = @ + 1]
          IN  IF oc.ok
              THEN /\ last' = [l EXCEPT !.out = Append(@, [sig |-> "Tools",
                                            text |-> Compact(ServerTools(MCP_URL))])]
                   /\ pc' = "minimal: close"
                   /\ UNCHANGED <<caught, diagnostic>>
              ELSE MinimalFail(l, oc.err)

\* await client.close(); main() returns
MinimalClose ==
    /\ pc = "minimal: close"
    /\ MinimalUnchanged
    /\ UNCHANGED <<nextId, mcpTransport>>
    /\ mcpClosed' = TRUE
    /\ \E oc \in MinimalOutcomes :
          LET l == [last EXCEPT !.closeCalls = @ + 1]
          IN  IF oc.ok
              THEN /\ open' = open \ {mcpTransport}
                   /\ last' = [l EXCEPT !.closed = @ \cup ({mcpTransport} \cap open),
                                        !.out = Append(@, [sig |-> "Closed", text |-> <<>>])]
                   /\ pc' = "minimal: returned"
                   /\ UNCHANGED <<caught, diagnostic>>
              ELSE /\ MinimalFail(l, oc.err)
                   /\ UNCHANGED open

NextMinimal ==
    \/ MinimalConnect
    \/ MinimalListTools
    \/ MinimalClose

SpecMinimal == InitMinimal /\ [][NextMinimal]_vars

----------------------------------------------------------------------------
(* What the last command did, read from its record *)

\* the signals the last command printed
Printed(sig) == \E i \in DOMAIN last.out : last.out[i].sig = sig

\* a connect operation ran in the last command and failed
ConnectFailed ==
    \E i \in DOMAIN last.out :
        /\ last.out[i].sig = "Failed"
        /\ last.out[i].text[1] \in {"connect via stdio", "connect via SSE", "connect via HTTP"}

\* a connect operation ran in the last command and succeeded
ConnectSucceeded == Printed("Connected")

\* the kind and the target the last command passed to its connect operation
PassedKind ==
    IF last.cmd = "connect" THEN last.args.type[1] ELSE ToLowerCase(env.transport[1])

PassedTarget ==
    IF last.cmd = "connect" THEN last.args.target[1] ELSE env.url[1]

\* the last command invoked call(name, args)
CallInvoked ==
    /\ last.cmd = "call"
    /\ last.args.name # <<>>
    /\ JsonValid(last.args.text[1])

\* the descriptors the server behind a target advertises, as the catalog holds them
Advertised(target) ==
    {MapTools(ServerTools(target))[i] : i \in 1..Len(ServerTools(target))}

----------------------------------------------------------------------------
(* Claims *)

\* C1: a connect attempt that fails, from any prior session state, leaves the
\* session Disconnected (status 'Not connected') and the tool catalog empty.
C1_FailedConnectLeavesDisconnected ==
    ConnectFailed =>
        /\ connected = FALSE
        /\ status(Cur) = <<"Not connected">>
        /\ tools = <<>>

\* C2: at most one transport is open at any time: every transport that was
\* opened is closed before another one is opened.
C2_AtMostOneTransportOpen ==
    Cardinality(open) <= 1

\* C3: after a connect attempt that fails starting from Disconnected, the
\* fields connected, transport, transportType, transportTarget and tools all
\* have their initial values.
C3_FailedConnectRetainsNothing ==
    (ConnectFailed /\ ~last.pre.connected /\ last.cmd \in {"connect", "start"}) =>
        Session(Cur) = InitialSession

\* C4: disconnect() is idempotent: a disconnect() that follows a disconnect()
\* raises no error, changes no session field and closes no transport.
C4_DisconnectIdempotent ==
    (last.cmd \in {"disconnect", "exit"} /\ last.afterDisconnect # "no") =>
        /\ last.thrown = <<>>
        /\ last.closeCalls = 0
        /\ last.closed = {}
        /\ open = last.preOpen
        /\ Session(Cur) = last.pre

\* a second disconnect() in a row has run, the first one from Connected
C4_Witness ==
    /\ last.cmd = "disconnect"
    /\ last.afterDisconnect = "from connected"

\* C5: disconnect() invoked in the Connected state closes the active transport
\* exactly once (one close call, which shuts one open transport) and ends with
\* every session field reset, so that status() reports 'Not connected'.
\* Stated here for the calls whose close() returned: a close() that rejects
\* makes disconnect() throw before it resets anything.
C5_DisconnectClosesAndResets ==
    (last.cmd = "disconnect" /\ last.pre.connected /\ last.thrown = <<>>) =>
        /\ last.closeCalls = 1
        /\ Cardinality(last.closed) = 1
        /\ Session(Cur) = InitialSession
        /\ status(Cur) = <<"Not connected">>

\* C6: after any successful connect(kind, target), status() reports Connected
\* with exactly the kind and the target passed to that connect.
C6_StatusReportsPassedKindAndTarget ==
    ConnectSucceeded =>
        status(Cur) = <<"Connected via", PassedKind, PassedTarget>>

\* a connect succeeded while the session was Connected to another target
C6_Witness ==
    /\ ConnectSucceeded
    /\ last.pre.connected
    /\ last.pre.transportTarget # transportTarget
    /\ last.pre.transportType # transportType

\* C7: every successful connect refreshes the catalog before it completes:
\* right after it the catalog holds the tools the server advertises.
C7_ConnectRefreshesCatalog ==
    ConnectSucceeded =>
        tools = MapTools(ServerTools(transportTarget))

\* C8: the tool catalog is non-empty only if the session is Connected.
C8_CatalogOnlyWhenConnected ==
    Len(tools) > 0 => connected = TRUE

\* a populated catalog was dropped by a disconnect
C8_Witness ==
    /\ last.cmd \in {"disconnect", "connectenv", "exit"}
    /\ Len(last.pre.tools) > 0
    /\ ~connected

\* C9: after any successful connect, every descriptor in the catalog was
\* advertised by the currently connected server.
C9_CatalogOfCurrentServer ==
    ConnectSucceeded =>
        \A i \in DOMAIN tools : tools[i] \in Advertised(transportTarget)

\* C10 (as stated): call(name, args) with a name absent from the catalog issues
\* no request to the transport and reports a 'not found' signal.
C10_AbsentNameNotFound ==
    (CallInvoked /\ Find(last.pre.tools, last.args.name[1]) = {}) =>
        /\ last.toolCalls = 0
        /\ Printed("ToolNotFound")

\* C10 (amended): call(name, args) with a name absent from the catalog issues
\* no request to the transport; it reports 'not found' for that name when the
\* session is Connected and 'Not connected.' when it is not.
C10_AbsentNameNoRequest ==
    (CallInvoked /\ Find(last.pre.tools, last.args.name[1]) = {}) =>
        /\ last.toolCalls = 0
        /\ last.sent = <<>>
        /\ last.pre.connected =>
              /\ \E i \in DOMAIN last.out :
                    /\ last.out[i].sig = "ToolNotFound"
                    /\ last.out[i].text = last.args.name[1]
              /\ ~Printed("NotConnected")
        /\ ~last.pre.connected =>
              /\ Printed("NotConnected")
              /\ ~Printed("ToolNotFound")

\* call ran while Connected with a populated catalog that lacks the name
C10_Witness ==
    /\ CallInvoked
    /\ last.pre.connected
    /\ Len(last.pre.tools) > 0
    /\ Find(last.pre.tools, last.args.name[1]) = {}
    /\ Printed("ToolNotFound")

\* the last command invoked listTools(), showTool(name) or call(name, args)
FacadeQueryInvoked ==
    \/ last.cmd = "tools"
    \/ last.cmd = "tool" /\ last.args.name # <<>>
    \/ CallInvoked

\* C11: call, listTools and showTool invoked while Disconnected perform no
\* transport operation, report 'Not connected.' without raising, and leave
\* the whole session state as it was.
C11_DisconnectedQueriesDoNothing ==
    (FacadeQueryInvoked /\ ~last.pre.connected) =>
        /\ last.listCalls = 0 /\ last.toolCalls = 0 /\ last.closeCalls = 0
        /\ last.created = {} /\ last.opened = {} /\ last.closed = {}
        /\ Printed("NotConnected")
        /\ \A i \in DOMAIN last.out : last.out[i].sig \in {"NotConnected", "Invoking"}
        /\ last.fmtCalls = 0
        /\ last.thrown = <<>>
        /\ Session(Cur) = last.pre
        /\ open = last.preOpen /\ mcpTransport = last.preMcp

\* tools is run Disconnected, after a session that was Connected
C11_Witness ==
    /\ last.cmd = "tools" /\ ~last.pre.connected
    /\ nextId > 1
    /\ Printed("NotConnected")

\* C12: one invocation of call issues exactly one callTool request when the
\* session is Connected and the name is in the catalog, whether the request
\* succeeds or fails, and none otherwise.
C12_ExactlyOneRequest ==
    CallInvoked =>
        last.toolCalls =
            IF last.pre.connected /\ Find(last.pre.tools, last.args.name[1]) # {}
            THEN 1 ELSE 0

\* a call whose one request failed
C12_Witness ==
    /\ CallInvoked /\ last.toolCalls = 1
    /\ Printed("Failed")

\* the callTool request of the last command was sent and failed
CallToolFailed ==
    /\ CallInvoked /\ last.toolCalls > 0
    /\ ~Printed("ToolResult")

\* C13: when the callTool request fails inside call, the failure is passed
\* through formatMcpError before it is reported, no exception escapes call,
\* and connected, transportType, transportTarget and tools stay as they were.
C13_CallFailureClassified ==
    CallToolFailed =>
        /\ last.fmtCalls = 1
        /\ \E i \in DOMAIN last.out :
               /\ last.out[i].sig = "Failed"
               /\ last.out[i].text[1] = "call tool"
               /\ last.out[i].text[2] \in
                      {formatMcpError(e) : e \in Errors \cup {SdkNotConnected}}
        /\ last.thrown = <<>> /\ pc = "prompt"
        /\ Session(Cur) = last.pre
        /\ connected

\* a call whose request failed with the authentication error
C13_Witness ==
    /\ CallToolFailed
    /\ \E i \in DOMAIN last.out :
           /\ last.out[i].sig = "Failed"
           /\ last.out[i].text[2] = formatMcpError(AuthError)

\* C14: no failure of a transport operation (open, close, listTools,
\* callTool) during a REPL command escapes the command loop: after every
\* failed command the session is Disconnected or unchanged Connected and the
\* REPL accepts the next command.
C14_NothingIsFatal ==
    /\ last.thrown = <<>>
    /\ pc # "crashed"
    /\ (Printed("Failed") =>
           /\ pc = "prompt"
           /\ \/ ~connected
              \/ /\ last.pre.connected
                 /\ transportType = last.pre.transportType
                 /\ transportTarget = last.pre.transportTarget
                 /\ tools = last.pre.tools)

\* the diagnostics of the HTTP connects of the last command that failed
\* with the server's -32000
HttpAuthFailures ==
    {last.out[i].text[2] : i \in
        {j \in DOMAIN last.out :
            /\ last.out[j].sig = "Failed"
            /\ last.out[j].text[1] = "connect via HTTP"
            /\ last.out[j].text[2] = formatMcpError(AuthError)}}

\* C20: when an HTTP connect with a bad credential fails with code -32000,
\* the reported diagnostic has the name 'Authentication Error' and a
\* non-empty how-to-handle text, and the session is not Connected afterwards.
C20_HttpAuthFailure ==
    \A d \in HttpAuthFailures :
        /\ d.raised = <<>>
        /\ d.text[3] = <<"Code: ", "-32000">>
        /\ d.text[4] = <<"Name: ", "Authentication Error">>
        /\ d.text[7][1] = "How to Handle: " /\ d.text[7][2] # ""
        /\ ~connected
        /\ status(Cur) = <<"Not connected">>

\* C21: starting Disconnected, the sequence successful stdio connect,
\* listTools (the server advertises T), call(n, args) with n in T,
\* disconnect(), status() behaves as: listTools caches exactly T, the call is
\* forwarded to the transport once with the given arguments and its content
\* is returned, and the final status reports 'Not connected'.
C21_StdioScenario ==
    LET T == ServerTools(transportTarget)
    IN  /\ last.scenario = 2 =>
              /\ Len(tools) = Len(T)
              /\ \A i \in DOMAIN T :
                    /\ tools[i].name = T[i].name
                    /\ tools[i].description = T[i].description
                    /\ tools[i].input_schema = T[i].inputSchema
        /\ last.scenario = 3 =>
              /\ last.toolCalls = 1
              /\ last.sent = <<[name |-> last.args.name[1],
                                arguments |-> JsonParse(last.args.text[1]),
                                via |-> transport.id]>>
              /\ transport.id \in open
              /\ last.out[Len(last.out)] =
                    [sig |-> "ToolResult",
                     text |-> ServerContent(transportTarget, last.args.name[1],
                                            JsonParse(last.args.text[1]))]
        /\ last.scenario = 5 =>
              last.out = <<[sig |-> "Status", text |-> <<"Not connected">>]>>

\* the whole sequence was run
C21_Witness ==
    /\ last.scenario = 5
    /\ last.cmd = "status"

\* the guidance the last call command printed for the precondition it found
\* violated, "" when it found none
PreconditionViolated ==
    IF last.cmd # "call" \/ last.args.name = <<>> THEN ""
    ELSE IF ~JsonValid(last.args.text[1]) THEN "InvalidJSON"
    ELSE IF ~last.pre.connected THEN "NotConnected"
    ELSE IF Find(last.pre.tools, last.args.name[1]) = {} THEN "ToolNotFound"
    ELSE ""

\* C22: client-side precondition violations (call while not connected, call
\* of a name not in the catalog, a call command whose argument text is not
\* valid JSON) are reported without any transport operation and without
\* invoking formatMcpError.
C22_PreconditionsBypassTransport ==
    PreconditionViolated # "" =>
        /\ Printed(PreconditionViolated)
        /\ last.toolCalls = 0 /\ last.listCalls = 0 /\ last.closeCalls = 0
        /\ last.created = {} /\ last.opened = {} /\ last.sent = <<>>
        /\ last.fmtCalls = 0 /\ ~Printed("Failed")
        /\ last.thrown = <<>> /\ pc = "prompt"
        /\ open = last.preOpen

\* a Connected session was asked for a name its catalog does not hold
C22_Witness ==
    /\ PreconditionViolated = "ToolNotFound"
    /\ Len(last.pre.tools) > 0
    /\ Printed("ToolNotFound")

\* the last command ran autoConnect past its configuration guard
AutoConnectDispatched ==
    /\ last.cmd \in {"start", "connectenv"}
    /\ Printed("AutoConnecting")

\* the connect operation of the given kind was entered with the configured
\* target
Entered(kind) ==
    \E i \in DOMAIN last.out :
        /\ last.out[i].sig = "Connecting"
        /\ last.out[i].text = <<kind, env.url[1]>>

\* C23: autoConnect reads the configured transport kind case-insensitively
\* as one of sse, http, stdio and dispatches to the matching connect
\* operation; for any other value it makes no connection attempt, reports an
\* unsupported-transport diagnostic, returns false without raising and
\* leaves the session state unchanged.
C23_AutoConnectKinds ==
    AutoConnectDispatched =>
        CASE env.transport[1] \in {"sse", "SSE"} ->
                 Entered("sse") /\ ~Printed("UnsupportedTransport")
          [] env.transport[1] \in {"http", "HTTP"} ->
                 Entered("http") /\ ~Printed("UnsupportedTransport")
          [] env.transport[1] \in {"stdio", "STDIO"} ->
                 Entered("stdio") /\ ~Printed("UnsupportedTransport")
          [] OTHER ->
                 /\ Printed("UnsupportedTransport")
                 /\ ~Printed("Connecting") /\ ~Printed("Failed")
                 /\ last.created = {} /\ last.opened = {}
                 /\ last.ret = <<FALSE>>
                 /\ last.thrown = <<>> /\ pc = "prompt"
                 /\ Session(Cur) = IF last.closeCalls > 0 THEN InitialSession
                                   ELSE last.pre

\* a configuration that writes the kind in capitals was connected through
\* the SSE operation
C23_Witness ==
    /\ AutoConnectDispatched
    /\ env.transport = <<"SSE">>
    /\ Entered("sse") /\ connected /\ transportType = "sse"
    /\ last.ret = <<TRUE>>

\* a configuration of an unsupported kind was rejected
C23_WitnessUnsupported ==
    /\ AutoConnectDispatched
    /\ Printed("UnsupportedTransport")
    /\ last.pre.connected

\* the catalog ts is the complete list the server behind target advertises
CompleteListOf(ts, target) ==
    LET T == ServerTools(target)
    IN  /\ Len(ts) = Len(T)
        /\ \A i \in DOMAIN T :
              /\ ts[i].name = T[i].name
              /\ ts[i].description = T[i].description
              /\ ts[i].input_schema = T[i].inputSchema

\* C24: a catalog reload replaces the cached catalog atomically: where
\* another operation can observe it, the catalog is either the complete
\* previous list or the complete newly fetched list, never a partly updated
\* one.
C24_ReloadAtomic ==
    /\ last.listCalls > 0 =>
          \/ tools = last.pre.tools /\ Printed("Failed")
          \/ CompleteListOf(tools, TargetOf(transport)) /\ ~Printed("Failed")
    /\ \E target \in AllTargets : CompleteListOf(tools, target)

\* a reload replaced a catalog that was not empty
C24_Witness ==
    /\ last.listCalls > 0
    /\ Len(last.pre.tools) > 0
    /\ ~Printed("Failed")
    /\ CompleteListOf(tools, TargetOf(transport))

\* the listTools request of the last command was sent and the server replied:
\* the client's transport was open and the command reports none of the
\* failures a request can end with
ListAnswered ==
    /\ last.listCalls > 0
    /\ last.preMcp \in last.preOpen
    /\ \A i \in DOMAIN last.out :
          last.out[i].sig = "Failed" =>
              last.out[i].text[2] \notin {formatMcpError(e) : e \in Errors}

\* C25: a reload whose server reply holds no tools is not an error: it sets
\* the catalog to empty, reports 'No tools available.' (neither 'Not
\* connected.' nor a failure report) and leaves the session Connected.
C25_ZeroToolsReload ==
    (ListAnswered /\ ServerTools(TargetOf(transport)) = <<>>)
    =>  /\ tools = <<>>
        /\ Printed("NoTools")
        /\ ~Printed("NotConnected") /\ ~Printed("Failed")
        /\ last.fmtCalls = 0 /\ last.thrown = <<>>
        /\ connected
        /\ transportType = last.pre.transportType
        /\ transportTarget = last.pre.transportTarget

\* the server with no tools was asked for its list
C25_Witness ==
    /\ last.cmd = "tools" /\ last.listCalls = 1
    /\ ServerTools(TargetOf(transport)) = <<>>
    /\ Printed("NoTools") /\ connected

\* where the first signal sig stands in what the last command printed, 0 if
\* it did not print it
Position(sig) ==
    IF Printed(sig)
    THEN CHOOSE i \in DOMAIN last.out :
             /\ last.out[i].sig = sig
             /\ \A j \in 1..(i - 1) : last.out[j].sig # sig
    ELSE 0

\* the transport the session was Connected over when the last command began:
\* the one opened last of those open (ids grow with each construction)
PreviouslyConnected ==
    IF last.pre.connected /\ last.preOpen # {}
    THEN {CHOOSE i \in last.preOpen : \A j \in last.preOpen : j <= i}
    ELSE {}

\* the last command was connectenv <file> and it came back to the prompt
ConnectenvCompleted ==
    /\ last.cmd = "connectenv" /\ last.args.file # <<>>
    /\ pc = "prompt"

\* C26: connectenv performs, in this order, the disconnect of the current
\* session if Connected, the load of the environment file, then an
\* automatic connect from the loaded configuration; when it completes the
\* previously connected transport has been closed and the session is either
\* Disconnected or Connected to the kind and target the configuration names.
C26_ConnectenvOrder ==
    ConnectenvCompleted =>
        /\ last.pre.connected <=> Printed("Disconnected")
        /\ Position("Disconnected") < Position("LoadingEnv")
        /\ Position("LoadingEnv") < Position("EnvLoaded")
        /\ \/ Position("EnvLoaded") < Position("AutoConnecting")
           \/ Position("EnvLoaded") < Position("NoAutoConnect")
        /\ env = DotenvConfig(env, last.args.file[1])
        /\ PreviouslyConnected \cap open = {}
        /\ connected =>
              /\ transportType \in {"sse", "http", "stdio"}
              /\ transportType \in {env.transport[1], ToLowerCase(env.transport[1])}
              /\ transportTarget = env.url[1]
              /\ TargetOf(transport) = env.url[1]
              /\ transport.id \in open

\* the credential the last command handed to its connect operation
SuppliedCredential ==
    IF last.cmd = "connect" THEN last.args.apiKey ELSE env.key

\* C27: for SSE and HTTP connects, the transport created for a connect
\* attempt carries the x-api-key header with the given credential exactly
\* when a credential was supplied to that connect, and no credential header
\* otherwise; a stdio connect never uses the credential.
C27_ApiKeyHeader ==
    last.created # {} =>
        /\ transport.id \in last.created
        /\ IF transport.kind \in {"sse", "http"}
           THEN IF Truthy(SuppliedCredential)
                THEN transport.apiKeyHeader = SuppliedCredential
                ELSE transport.apiKeyHeader = <<>>
           ELSE /\ transport.kind = "stdio"
                /\ transport.apiKeyHeader = <<>>
                /\ transport.url = <<>>
                /\ \A i \in DOMAIN transport.args :
                      Truthy(SuppliedCredential) =>
                          transport.args[i] # SuppliedCredential[1]

\* an HTTP connect was given a credential
C27_Witness ==
    /\ last.cmd = "connect" /\ last.args.type = <<"http">>
    /\ last.args.apiKey = <<"k1">>
    /\ last.created # {}
    /\ transport.apiKeyHeader = <<"k1">>

\* a stdio connect was given a credential
C27_WitnessStdio ==
    /\ last.cmd = "connect" /\ last.args.type = <<"stdio">>
    /\ last.args.apiKey = <<"k1">>
    /\ last.created # {}

\* C28: connectScript runs the target as a shell command line (/bin/bash -c
\* target) exactly when the target contains '&&', contains 'cd ', starts
\* with 'npx ' or contains a space; otherwise it executes the target directly
\* as the single program argument; in both cases the target is passed
\* unmodified and exactly one process transport is created.
C28_ShellHeuristic ==
    (last.cmd = "start" /\ Printed("AutoConnecting")) =>
        LET target == env.url[1]
            shell  == \/ \E i \in 1..(Len(target) - 1) :
                             target[i] = "&" /\ target[i + 1] = "&"
                      \/ \E i \in 1..(Len(target) - 2) :
                             target[i] = "c" /\ target[i + 1] = "d" /\ target[i + 2] = " "
                      \/ /\ Len(target) >= 4
                         /\ SubSeq(target, 1, 4) = <<"n", "p", "x", " ">>
                      \/ \E i \in 1..Len(target) : target[i] = " "
        IN  /\ Cardinality(last.created) = 1
            /\ transport.id \in last.created
            /\ transport.kind = "stdio"
            /\ IF shell
               THEN /\ transport.command = "/bin/bash"
                    /\ transport.args = << <<"-", "c">>, target >>
               ELSE /\ transport.command = "process.execPath"
                    /\ transport.args = <<target>>

\* a target with '&&' and no space was run through the shell
C28_Witness ==
    /\ last.cmd = "start"
    /\ env.url = << <<"c", "&", "&", "d">> >>
    /\ transport.command = "/bin/bash"
    /\ transport.args = << <<"-", "c">>, <<"c", "&", "&", "d">> >>

\* a target without any of the marks was run directly
C28_WitnessDirect ==
    /\ last.cmd = "start"
    /\ env.url = << <<"n", "p", "x">> >>
    /\ transport.command = "process.execPath"

\* C30: after disconnect() completes, the client object that every later
\* connect, listTools or call uses is a newly created one on which close has
\* never been called, so a connect issued after a disconnect can succeed and
\* connect/disconnect cycles can be repeated.
C30_FreshClientAfterDisconnect ==
    /\ ~last.onClosed
    /\ pc \in {"prompt", "exited"} => ~mcpClosed

\* a session was closed and, on the new client, another one opened
C30_Witness ==
    /\ last.cmd = "connectenv"
    /\ last.closeCalls = 1 /\ last.closed # {}
    /\ Printed("Disconnected") /\ Printed("Connected")
    /\ connected /\ mcpTransport \in open
    /\ ~last.onClosed

\* the last command invoked showTool(name) on a Connected session
ShowToolConnected ==
    /\ last.cmd = "tool" /\ last.args.name # <<>>
    /\ last.pre.connected

\* C31: showTool(name) while Connected reloads the catalog exactly when the
\* cached catalog is empty, and then once; it issues no transport request
\* when the catalog is not empty; it reports the descriptor when name is in
\* the resulting catalog and a 'not found' signal otherwise.
C31_ShowToolReload ==
    ShowToolConnected =>
        /\ last.listCalls = IF Len(last.pre.tools) = 0 THEN 1 ELSE 0
        /\ last.toolCalls = 0 /\ last.closeCalls = 0 /\ last.created = {}
        /\ Len(last.pre.tools) > 0 => tools = last.pre.tools
        /\ LET final == last.out[Len(last.out)]
               hit   == {i \in DOMAIN tools : tools[i].name = last.args.name[1]}
           IN  IF hit = {}
               THEN final = [sig |-> "ToolNotFound", text |-> last.args.name[1]]
               ELSE /\ final.sig = "Tool"
                    /\ final.text \in {tools[i] : i \in hit}
                    /\ ~Printed("ToolNotFound")
        /\ last.thrown = <<>>

\* showTool loaded an empty catalog and found the name in it
C31_Witness ==
    /\ ShowToolConnected
    /\ Len(last.pre.tools) = 0 /\ last.listCalls = 1
    /\ Printed("Tool")

\* showTool answered from a catalog that was loaded before
C31_WitnessCached ==
    /\ ShowToolConnected
    /\ Len(last.pre.tools) > 0 /\ last.listCalls = 0
    /\ Printed("ToolNotFound")

\* the last command ran autoConnect
AutoConnectRan ==
    /\ last.cmd \in {"start", "connectenv"}
    /\ Printed("NoAutoConnect") \/ Printed("AutoConnecting")

\* MCP_SERVER_URL and MCP_TRANSPORT are both set to a non-empty text
Configured ==
    /\ env.url # <<>> /\ Len(env.url[1]) > 0
    /\ env.transport # <<>> /\ env.transport[1] # ""

\* C32: autoConnect attempts a connection only when both the server target
\* and the transport kind are configured (non-empty); otherwise it makes no
\* transport attempt, leaves the session unchanged and returns false.  It
\* returns true only when the connect it issued succeeded, and never raises.
C32_AutoConnectGuard ==
    AutoConnectRan =>
        /\ last.created # {} => Configured
        /\ ~Configured =>
              /\ Printed("NoAutoConnect")
              /\ ~Printed("Connecting") /\ ~Printed("Failed")
              /\ last.created = {} /\ last.opened = {}
              /\ last.ret = <<FALSE>>
              /\ Session(Cur) = IF last.closeCalls > 0 THEN InitialSession
                                ELSE last.pre
        /\ last.ret \in {<<TRUE>>, <<FALSE>>}
        /\ last.ret = <<TRUE>> =>
              /\ Printed("Connected") /\ last.opened # {}
              /\ connected /\ transport.id \in open
        /\ last.thrown = <<>> /\ pc = "prompt"

\* an empty MCP_SERVER_URL kept autoConnect from connecting
C32_Witness ==
    /\ AutoConnectRan
    /\ env.url = << <<>> >> /\ env.transport # <<>>
    /\ Printed("NoAutoConnect") /\ last.ret = <<FALSE>>

\* a configured autoConnect whose connect failed returned false
C32_WitnessFailed ==
    /\ AutoConnectRan /\ Configured
    /\ Printed("Failed") /\ last.ret = <<FALSE>>

\* C33: the exit command disconnects before the REPL terminates: whenever
\* the REPL has terminated through exit, the session is Disconnected and
\* every transport that was connected has been closed.
C33_ExitDisconnects ==
    pc = "exited" =>
        /\ last.cmd = "exit"
        /\ ~connected /\ transportType = "null" /\ transportTarget = NullTarget
        /\ open = {}

\* C34: every REPL command issues a bounded number of transport operations
\* and re-issues none: at most one open per connect, at most one close and
\* one open per connectenv, one close per disconnect or exit, one listTools
\* per tools or tool, one callTool per call; so it terminates when each of
\* them returns or fails.
C34_BoundedOperations ==
    LET opens == Cardinality(last.created)
    IN  /\ opens <= 1 /\ Cardinality(last.opened) <= opens
        /\ last.closeCalls <= 1 /\ last.listCalls <= 1 /\ last.toolCalls <= 1
        /\ opens > 0 => last.cmd \in {"start", "connect", "connectenv"}
        /\ last.closeCalls > 0 => last.cmd \in {"disconnect", "exit", "connectenv"}
        /\ last.listCalls > 0 => last.cmd \in {"tools", "tool"}
        /\ last.toolCalls > 0 => last.cmd = "call"
        /\ opens + last.closeCalls + last.listCalls + last.toolCalls
              <= IF last.cmd = "connectenv" THEN 2 ELSE 1

\* a connectenv closed one session and tried to open another, which failed
C34_Witness ==
    /\ last.cmd = "connectenv" /\ last.closeCalls = 1
    /\ Cardinality(last.created) = 1 /\ last.opened = {}
    /\ Printed("Failed")

\* C35: in every reachable state, connected is true if and only if
\* transportType is non-null, and if and only if transportTarget is
\* non-null; so status has no kind or target to report while Disconnected
\* and has both while Connected.
C35_ConnectedIffTyped ==
    /\ connected <=> transportType # "null"
    /\ connected <=> transportTarget # NullTarget
    /\ connected => /\ transportType \in {"stdio", "sse", "http"}
                    /\ status(Cur) = <<"Connected via", transportType, transportTarget>>
    /\ ~connected => status(Cur) = <<"Not connected">>

\* a session that was Connected has been disconnected
C35_Witness ==
    /\ last.cmd = "disconnect" /\ last.pre.connected
    /\ last.pre.transportType # "null" /\ last.pre.transportTarget # NullTarget
    /\ ~connected /\ transportType = "null" /\ transportTarget = NullTarget

\* the listTools request of the last tools command was sent and failed
ListToolsFailed ==
    /\ last.cmd = "tools" /\ last.pre.connected
    /\ last.listCalls > 0
    /\ ~Printed("Tools") /\ ~Printed("ToolsFull") /\ ~Printed("NoTools")

\* C36: when the server's tool-list request fails while the session is
\* Connected, listTools reports a classified error without raising and
\* leaves the cached catalog and connected, transportType and
\* transportTarget exactly as they were before the call.
C36_ListFailureFrame ==
    ListToolsFailed =>
        /\ last.fmtCalls = 1
        /\ last.out = <<[sig |-> "Failed", text |-> last.out[1].text]>>
        /\ last.out[1].text[1] = "list tools"
        /\ last.out[1].text[2] \in
               {formatMcpError(e) : e \in Errors \cup {SdkNotConnected}}
        /\ last.thrown = <<>> /\ pc = "prompt"
        /\ tools = last.pre.tools
        /\ connected
        /\ transportType = last.pre.transportType
        /\ transportTarget = last.pre.transportTarget
        /\ Session(Cur) = last.pre

\* a reload failed over a catalog that was not empty
C36_Witness ==
    /\ ListToolsFailed
    /\ Len(last.pre.tools) > 0
    /\ tools = last.pre.tools
    /\ Printed("Failed")

\* the last command was a connect whose kind or target is missing or whose
\* kind is none of 'stdio', 'http', 'sse' as written
BadConnectCommand ==
    /\ last.cmd = "connect"
    /\ \/ last.args.type = <<>>
       \/ last.args.target = <<>>
       \/ last.args.type[1] \notin {"stdio", "http", "sse"}

\* C37: a REPL connect command with a missing kind or target, or with a kind
\* other than exactly 'stdio', 'http' or 'sse', makes no transport attempt
\* and leaves connected, transport, transportType, transportTarget and tools
\* unchanged.
C37_BadConnectFrame ==
    BadConnectCommand =>
        /\ last.created = {} /\ last.opened = {} /\ ~Printed("Connecting")
        /\ last.closeCalls = 0 /\ last.listCalls = 0 /\ last.toolCalls = 0
        /\ Printed("UsageConnect") \/ Printed("UnknownTransport")
        /\ Session(Cur) = last.pre
        /\ open = last.preOpen /\ mcpTransport = last.preMcp
        /\ nextId \notin last.created
        /\ last.thrown = <<>> /\ pc = "prompt"

\* a Connected session was given a connect with the kind in capitals
C37_Witness ==
    /\ BadConnectCommand
    /\ last.args.type = <<"SSE">> /\ last.args.target # <<>>
    /\ last.pre.connected /\ connected
    /\ Printed("UnknownTransport")

----------------------------------------------------------------------------
(* Claims about the classifier *)

\* formatMcpError was called on the caught value and returned its text
Classified == diagnostic # <<>>
ReturnedText == Classified /\ diagnostic[1].raised = <<>>

\* the code a returned text reports: that of its 'Code:' line, that of its
\* 'Error Code:' line, or none
ReportedCode ==
    LET text == diagnostic[1].text
    IN  IF Len(text) = 7 THEN <<text[3][2]>>
        ELSE IF Len(text) = 2 THEN <<text[2][2]>>
        ELSE <<>>

\* C15: for each of the six known codes, the text formatMcpError returns for
\* an error carrying that code has the name, description, common cause and
\* how-to-handle of the table entry verbatim; for any other code it has the
\* code marked unknown and no remediation; with no code it has only the
\* 'Error: <message>' line.
C15_DiagnosticMatchesTable ==
    ReturnedText =>
        LET text == diagnostic[1].text
            code == errorCode(caught)
        IN  /\ Len(text) >= 1 /\ text[1][1] = "Error: "
            /\ CASE code = <<>> -> Len(text) = 1
                 [] code # <<>> /\ code[1] \in DOMAIN MCP_ERROR_INFO ->
                      /\ Len(text) = 7
                      /\ text[2] = <<"MCP Error Details:">>
                      /\ text[3] = <<"Code: ", code[1]>>
                      /\ text[4] = <<"Name: ", MCP_ERROR_INFO[code[1]].name>>
                      /\ text[5] = <<"Description: ", MCP_ERROR_INFO[code[1]].description>>
                      /\ text[6] = <<"Common Cause: ", MCP_ERROR_INFO[code[1]].commonCause>>
                      /\ text[7] = <<"How to Handle: ", MCP_ERROR_INFO[code[1]].howToHandle>>
                 [] OTHER ->
                      /\ Len(text) = 2
                      /\ text[2] = <<"Error Code: ", code[1], " (unknown MCP error code)">>

\* an error carrying -32002 at error.response.error.code only was classified
\* as Method Not Found
C15_Witness ==
    /\ ReturnedText
    /\ caught.code = <<>> /\ caught.ecode = <<>> /\ caught.rcode = <<"-32002">>
    /\ diagnostic[1].text[4] = <<"Name: ", "Method Not Found">>

\* C16: formatMcpError takes the code from the first present of error.code,
\* error.error.code and error.response.error.code, in that order: a later
\* position is consulted only when every earlier one is absent.
C16_CodeExtractionOrder ==
    ReturnedText =>
        /\ caught.code # <<>> => ReportedCode = caught.code
        /\ (caught.code = <<>> /\ caught.ecode # <<>>) => ReportedCode = caught.ecode
        /\ (caught.code = <<>> /\ caught.ecode = <<>> /\ caught.rcode # <<>>)
               => ReportedCode = caught.rcode
        /\ (caught.code = <<>> /\ caught.ecode = <<>> /\ caught.rcode = <<>>)
               => ReportedCode = <<>>

\* the direct code won over two other nested codes
C16_Witness ==
    /\ ReturnedText
    /\ caught.code = <<"-32006">> /\ caught.ecode = <<"-32001">>
    /\ caught.rcode = <<"-32004">>
    /\ ReportedCode = <<"-32006">>

\* C17: formatMcpError takes the message from the first available of the
\* direct message, the nested error.message and the string conversion of the
\* error (a field is available when it holds a non-empty text); the reported
\* message is 'Unknown error' exactly when none of the three is available.
C17_MessageFallbackChain ==
    Classified =>
        /\ diagnostic[1].raised = <<>>
        /\ diagnostic[1].text[1] =
              <<"Error: ",
                IF Truthy(caught.message) THEN caught.message[1]
                ELSE IF Truthy(caught.emessage) THEN caught.emessage[1]
                ELSE IF caught.str # NotCallable /\ Truthy(caught.str)
                     THEN caught.str[1]
                ELSE "Unknown error">>

\* C18: formatMcpError returns a diagnostic text and never throws, whatever
\* the input: null, undefined, an empty object, a primitive, or an object
\* whose code, message, error, response or toString is missing or of an
\* unexpected type.
C18_ClassifierNeverThrows ==
    Classified =>
        /\ diagnostic[1].raised = <<>>
        /\ Len(diagnostic[1].text) >= 1

----------------------------------------------------------------------------
(* Claims about the minimal client *)

\* C38: the minimal client performs connect, listTools and close in that
\* order, each at most once: listTools is issued only after connect
\* succeeded and close only after listTools succeeded; any failure among
\* them produces exactly one classified diagnostic through formatMcpError,
\* followed by process exit with status 1 and no further transport
\* operation.
C38_MinimalClientOrder ==
    LET connects == Cardinality(last.created)
        failed   == last.thrown # <<>>
    IN  /\ connects <= 1 /\ last.listCalls <= 1 /\ last.closeCalls <= 1
        /\ last.toolCalls = 0
        /\ last.listCalls > 0 => (connects = 1 /\ last.opened # {})
        /\ last.closeCalls > 0 => (last.listCalls = 1 /\ Printed("Tools"))
        /\ Printed("Tools") => Position("Connected") = 1 /\ Position("Tools") = 2
        /\ Printed("Closed") => Position("Closed") = 3
        /\ failed <=> pc = "minimal: exit 1"
        /\ failed =>
              /\ last.fmtCalls = 1
              /\ diagnostic = <<formatMcpError(caught)>>
              /\ last.thrown = <<caught>>
              /\ last.out[Len(last.out)] =
                    [sig |-> "Failed", text |-> <<"MCP Client Error", diagnostic[1]>>]
              /\ Cardinality({i \in DOMAIN last.out : last.out[i].sig = "Failed"}) = 1
              \* the failed operation was the last one issued
              /\ Len(last.out) = connects + last.listCalls + last.closeCalls
        /\ ~failed => last.fmtCalls = 0 /\ diagnostic = <<>>
        /\ pc = "minimal: returned" => (Printed("Closed") /\ open = {})

\* listTools failed with the authentication code after a connect that
\* succeeded: one diagnostic, exit 1, no close
C38_Witness ==
    /\ pc = "minimal: exit 1"
    /\ last.opened # {} /\ last.listCalls = 1 /\ last.closeCalls = 0
    /\ caught.code = <<"-32000">>
    /\ last.fmtCalls = 1
    /\ diagnostic[1].text[4] = <<"Name: ", "Authentication Error">>

============================================================================
